---- MODULE Spec2Model ----
(***************************************************************************)
(* Model of the Cattle-Watch backend (src/main.py): module start-up with   *)
(* the Earth Engine session, the route GET /api/v1/update with its two     *)
(* data functions, and the coordinate proxy called on its own.             *)
(*                                                                         *)
(* Numbers with a fractional part are fixed-point integers in units of     *)
(* 1/Scale (four decimals, the precision of round(x, 4)): 0.5 is 5000,     *)
(* 31.5543 degrees is 315543.  The quotients of the coordinate transform   *)
(* are at least 1e-5 away from a rounding tie, far more than the error of  *)
(* double arithmetic, so exact rational rounding gives Python's result.    *)
(***************************************************************************)
EXTENDS Integers, Sequences, FiniteSets, TLC

VARIABLES
    phase,              \* "boot", "initialized", "loaded", "serving", "crashed"
    session,            \* state of the ee client: "none", "ok", "failed"
    initCount,          \* number of ee.Initialize calls made so far
    PROJECT_ID,         \* module global, line 18
    AOI_BOUNDS,         \* module global, line 28 (<<>> until assigned)
    names,              \* names bound in the module's global namespace
    stdout,             \* lines printed so far
    pc,                 \* per request: "idle", "fetch", "proxy", "done"
    queries,            \* per request: remote matrix queries issued
    outcome,            \* per request: outcome of its own remote query
    fetched,            \* per request: what get_satellite_matrix gave the handler
    response,           \* per request: the HTTP response
    ppc,                \* direct call of get_real_location_proxy: "idle", "loop"
    idx,                \* its loop position in raw_locations
    transformed_points, \* its local list
    returned            \* the lists returned by the completed direct calls

vars == <<phase, session, initCount, PROJECT_ID, AOI_BOUNDS, names, stdout,
          pc, queries, outcome, fetched, response,
          ppc, idx, transformed_points, returned>>

serverVars == <<phase, session, initCount, PROJECT_ID, AOI_BOUNDS, names, stdout,
                pc, queries, outcome, fetched, response>>

proxyVars == <<ppc, idx, transformed_points, returned>>

---------------------------------------------------------------------------
\* Bounds of the model
MaxRequests == 2
MaxCalls == 25

Requests == 1..MaxRequests

---------------------------------------------------------------------------
\* Program constants
Scale == 10000
FallbackRows == 48
FallbackCols == 64
FallbackCell == 5000
Intensity == 3505000
CurrentNdvi == 4400
CurrentTemp == 378000

AoiBoundsLiteral == <<310000, 60000, 325000, 75000>>

raw_locations ==
    << [lat |-> 62045, lon |-> 315543],
       [lat |-> 63122, lon |-> 316210],
       [lat |-> 61150, lon |-> 314890] >>

BootNames == {"ee", "os", "certifi", "FastAPI", "CORSMiddleware", "uvicorn",
              "np", "app", "PROJECT_ID"}

LoadedNames == {"AOI_BOUNDS", "get_real_location_proxy", "get_satellite_matrix",
                "get_cattle_telemetry"}

---------------------------------------------------------------------------
\* The coordinate proxy

\* a variant that cuts the digits off instead of rounding
RoundTrunc(n, d) == n \div d

\* n / d rounded to the nearest integer, ties to even (Python's round)
RoundDiv(n, d) ==
    LET q == n \div d
        r == n % d
    IN  IF 2 * r > d \/ (2 * r = d /\ q % 2 = 1) THEN q + 1 ELSE q

\* one iteration of the loop of get_real_location_proxy
TransformPoint(loc, bounds) ==
    LET lon_min == bounds[1]
        lat_min == bounds[2]
        lon_max == bounds[3]
        lat_max == bounds[4]
    IN  [x |-> RoundDiv((loc.lon - lon_min) * Scale, lon_max - lon_min),
         y |-> RoundDiv(((lat_max - lat_min) - (loc.lat - lat_min)) * Scale,
                        lat_max - lat_min),
         intensity |-> Intensity]

\* the whole function, as the route would call it
get_real_location_proxy(bounds) ==
    [i \in 1..Len(raw_locations) |-> TransformPoint(raw_locations[i], bounds)]

---------------------------------------------------------------------------
\* The remote matrix

Grid(rows, cols, v) == [i \in 1..rows |-> [j \in 1..cols |-> v]]

\* a variant with rows and columns exchanged
FallbackGridSwapped == Grid(FallbackCols, FallbackRows, FallbackCell)

FallbackGrid == Grid(FallbackRows, FallbackCols, FallbackCell)

\* What the remote service may hand back for the sampled rectangle.  The code
\* passes it on unexamined, so the model offers the 64x48 layout the comment
\* on line 73 speaks of and the square layout of the square area of interest.
RemoteShapes == { <<48, 64>>, <<48, 48>> }
RemoteCells == { -2000, 5000 }
RemoteGrids == { Grid(s[1], s[2], v) : s \in RemoteShapes, v \in RemoteCells }

RaisedOutcome == [kind |-> "raise", grid |-> <<>>]
NoOutcome == [kind |-> "none", grid |-> <<>>]

\* The ee client serves calls only after a successful ee.Initialize; before
\* that its constructors raise.
ClientReady(s) == s = "ok"

\* Outcomes of the chained query of lines 63-78: it raises or yields a grid.
RemoteOutcomes(s) ==
    IF ClientReady(s)
    THEN {RaisedOutcome} \cup { [kind |-> "ok", grid |-> g] : g \in RemoteGrids }
    ELSE {RaisedOutcome}

\* a variant whose except clause raises again
SatelliteMatrixReraise(o) ==
    IF o.kind = "raise"
    THEN [exc |-> "Exception", value |-> <<>>]
    ELSE [exc |-> "none", value |-> o.grid]

\* try: ... return pixel_array   except Exception: ... return fallback
SatelliteMatrixResult(o) ==
    IF o.kind = "raise"
    THEN [exc |-> "none", value |-> FallbackGrid]
    ELSE [exc |-> "none", value |-> o.grid]

NotFetched == [exc |-> "none", value |-> <<>>]

Shape(g) == <<Len(g), IF Len(g) = 0 THEN 0 ELSE Len(g[1])>>

---------------------------------------------------------------------------
\* The route

NoResponse == [status |-> 0, body |-> [text |-> ""]]
ServerError == [status |-> 500, body |-> [text |-> "Internal Server Error"]]

\* lines 96-104: look the proxy up by the name the handler uses, then build
\* the body; an unbound name or a propagated exception ends in a 500
HandlerResponse(res, ns, bounds) ==
    IF res.exc # "none" THEN ServerError
    ELSE IF "get_location_proxy" \notin ns THEN ServerError
    ELSE [status |-> 200,
          body |-> [ndvi_matrix |-> res.value,
                    conflicts |-> get_real_location_proxy(bounds),
                    current_ndvi |-> CurrentNdvi,
                    current_temp |-> CurrentTemp,
                    location_id |-> "South_Sudan_Bor_Sector"]]

---------------------------------------------------------------------------
Init ==
    /\ phase = "boot"
    /\ session = "none"
    /\ initCount = 0
    /\ PROJECT_ID = "cattle-watch"
    /\ AOI_BOUNDS = <<>>
    /\ names = BootNames
    /\ stdout = <<>>
    /\ pc = [r \in Requests |-> "idle"]
    /\ queries = [r \in Requests |-> 0]
    /\ outcome = [r \in Requests |-> NoOutcome]
    /\ fetched = [r \in Requests |-> NotFetched]
    /\ response = [r \in Requests |-> NoResponse]
    /\ ppc = "idle"
    /\ idx = 0
    /\ transformed_points = <<>>
    /\ returned = <<>>

\* a variant without the except clause: a failed start ends the process
InitializeUncaught ==
    /\ phase = "boot"
    /\ \E ok \in BOOLEAN :
          /\ session' = IF ok THEN "ok" ELSE "failed"
          /\ phase' = IF ok THEN "initialized" ELSE "crashed"
          /\ stdout' = Append(stdout, IF ok THEN "connected" ELSE "traceback")
    /\ initCount' = initCount + 1
    /\ UNCHANGED <<PROJECT_ID, AOI_BOUNDS, names, pc, queries, outcome, fetched,
                   response>>
    /\ UNCHANGED proxyVars

\* lines 20-24
Initialize ==
    /\ phase = "boot"
    /\ \E ok \in BOOLEAN :
          /\ session' = IF ok THEN "ok" ELSE "failed"
          /\ stdout' = Append(stdout, IF ok THEN "connected" ELSE "init failed")
    /\ initCount' = initCount + 1
    /\ phase' = "initialized"
    /\ UNCHANGED <<PROJECT_ID, AOI_BOUNDS, names, pc, queries, outcome, fetched,
                   response>>
    /\ UNCHANGED proxyVars

\* lines 28-104: the bounding box, the two functions and the route are bound
LoadModule ==
    /\ phase = "initialized"
    /\ AOI_BOUNDS' = AoiBoundsLiteral
    /\ names' = names \cup LoadedNames
    /\ phase' = "loaded"
    /\ UNCHANGED <<session, initCount, PROJECT_ID, stdout, pc, queries, outcome,
                   fetched, response>>
    /\ UNCHANGED proxyVars

\* lines 106-110
Run ==
    /\ phase = "loaded"
    /\ phase' = "serving"
    /\ stdout' = Append(stdout, "started")
    /\ UNCHANGED <<session, initCount, PROJECT_ID, AOI_BOUNDS, names, pc, queries,
                   outcome, fetched, response>>
    /\ UNCHANGED proxyVars

\* the framework hands a GET /api/v1/update to the handler
Receive(r) ==
    /\ phase = "serving"
    /\ pc[r] = "idle"
    /\ pc' = [pc EXCEPT ![r] = "fetch"]
    /\ UNCHANGED <<phase, session, initCount, PROJECT_ID, AOI_BOUNDS, names, stdout,
                   queries, outcome, fetched, response>>
    /\ UNCHANGED proxyVars

\* a variant that keeps the first matrix obtained and serves it again
get_satellite_matrix_cached(r) ==
    /\ pc[r] = "fetch"
    /\ IF \E q \in Requests : pc[q] \in {"proxy", "done"}
       THEN \E q \in Requests :
               /\ pc[q] \in {"proxy", "done"}
               /\ fetched' = [fetched EXCEPT ![r] = fetched[q]]
               /\ UNCHANGED <<queries, outcome, stdout>>
       ELSE \E o \in RemoteOutcomes(session) :
               /\ queries' = [queries EXCEPT ![r] = @ + 1]
               /\ outcome' = [outcome EXCEPT ![r] = o]
               /\ fetched' = [fetched EXCEPT ![r] = SatelliteMatrixResult(o)]
               /\ stdout' = IF o.kind = "raise"
                            THEN Append(stdout, "matrix failed") ELSE stdout
    /\ pc' = [pc EXCEPT ![r] = "proxy"]
    /\ UNCHANGED <<phase, session, initCount, PROJECT_ID, AOI_BOUNDS, names, response>>
    /\ UNCHANGED proxyVars

\* a variant that tries to open the session again when the query fails
get_satellite_matrix_reinit(r) ==
    /\ pc[r] = "fetch"
    /\ \E o \in RemoteOutcomes(session) :
          /\ queries' = [queries EXCEPT ![r] = @ + 1]
          /\ outcome' = [outcome EXCEPT ![r] = o]
          /\ fetched' = [fetched EXCEPT ![r] = SatelliteMatrixResult(o)]
          /\ stdout' = IF o.kind = "raise"
                       THEN Append(stdout, "matrix failed") ELSE stdout
          /\ session' = IF o.kind = "raise" THEN "ok" ELSE session
          /\ initCount' = IF o.kind = "raise" THEN initCount + 1 ELSE initCount
    /\ pc' = [pc EXCEPT ![r] = "proxy"]
    /\ UNCHANGED <<phase, PROJECT_ID, AOI_BOUNDS, names, response>>
    /\ UNCHANGED proxyVars

\* line 93 with lines 60-83: one remote query, its result or the fallback
get_satellite_matrix(r) ==
    /\ pc[r] = "fetch"
    /\ \E o \in RemoteOutcomes(session) :
          /\ queries' = [queries EXCEPT ![r] = @ + 1]
          /\ outcome' = [outcome EXCEPT ![r] = o]
          /\ fetched' = [fetched EXCEPT ![r] = SatelliteMatrixResult(o)]
          /\ stdout' = IF o.kind = "raise"
                       THEN Append(stdout, "matrix failed") ELSE stdout
    /\ pc' = [pc EXCEPT ![r] = "proxy"]
    /\ UNCHANGED <<phase, session, initCount, PROJECT_ID, AOI_BOUNDS, names, response>>
    /\ UNCHANGED proxyVars

\* lines 96-104: the call of get_location_proxy and the response
get_cattle_telemetry(r) ==
    /\ pc[r] = "proxy"
    /\ response' = [response EXCEPT ![r] = HandlerResponse(fetched[r], names, AOI_BOUNDS)]
    /\ pc' = [pc EXCEPT ![r] = "done"]
    /\ UNCHANGED <<phase, session, initCount, PROJECT_ID, AOI_BOUNDS, names, stdout,
                   queries, outcome, fetched>>
    /\ UNCHANGED proxyVars

Next ==
    \/ Initialize
    \/ LoadModule
    \/ Run
    \/ \E r \in Requests : Receive(r)
    \/ \E r \in Requests : get_satellite_matrix(r)
    \/ \E r \in Requests : get_cattle_telemetry(r)

Spec == Init /\ [][Next]_vars

---------------------------------------------------------------------------
\* get_real_location_proxy called directly, statement by statement

\* the module after import, whichever way the session start went
InitProxy ==
    /\ phase = "loaded"
    /\ session \in {"ok", "failed"}
    /\ initCount = 1
    /\ PROJECT_ID = "cattle-watch"
    /\ AOI_BOUNDS = AoiBoundsLiteral
    /\ names = BootNames \cup LoadedNames
    /\ stdout = << IF session = "ok" THEN "connected" ELSE "init failed" >>
    /\ pc = [r \in Requests |-> "idle"]
    /\ queries = [r \in Requests |-> 0]
    /\ outcome = [r \in Requests |-> NoOutcome]
    /\ fetched = [r \in Requests |-> NotFetched]
    /\ response = [r \in Requests |-> NoResponse]
    /\ ppc = "idle"
    /\ idx = 0
    /\ transformed_points = <<>>
    /\ returned = <<>>

\* lines 37-44
ProxyCall ==
    /\ ppc = "idle"
    /\ Len(returned) < MaxCalls
    /\ ppc' = "loop"
    /\ idx' = 1
    /\ transformed_points' = <<>>
    /\ UNCHANGED returned
    /\ UNCHANGED serverVars

\* lines 46-56
ProxyIterate ==
    /\ ppc = "loop"
    /\ idx <= Len(raw_locations)
    /\ transformed_points' =
          Append(transformed_points, TransformPoint(raw_locations[idx], AOI_BOUNDS))
    /\ idx' = idx + 1
    /\ UNCHANGED <<ppc, returned>>
    /\ UNCHANGED serverVars

\* line 58
ProxyReturn ==
    /\ ppc = "loop"
    /\ idx > Len(raw_locations)
    /\ returned' = Append(returned, transformed_points)
    /\ ppc' = "idle"
    /\ idx' = 0
    /\ transformed_points' = <<>>
    /\ UNCHANGED serverVars

NextProxy == ProxyCall \/ ProxyIterate \/ ProxyReturn

SpecProxy == InitProxy /\ [][NextProxy]_vars

---------------------------------------------------------------------------
\* Properties

Fetched(r) == pc[r] \in {"proxy", "done"}
Done(r) == pc[r] = "done"

FiveFields == {"ndvi_matrix", "conflicts", "current_ndvi", "current_temp",
               "location_id"}

\* C1: every finished request ends in a 200 response whose body has exactly
\* the five fields, whatever the start-up and the remote query did.
C1_AlwaysSuccess ==
    \A r \in Requests :
        Done(r) => /\ response[r].status = 200
                   /\ DOMAIN response[r].body = FiveFields

\* C2: when the remote query raised, the request ends in a 200 response whose
\* ndvi_matrix is the fallback grid.
C2_FallbackOnFailure ==
    \A r \in Requests :
        (Done(r) /\ outcome[r].kind = "raise")
            => /\ response[r].status = 200
               /\ "ndvi_matrix" \in DOMAIN response[r].body
               /\ response[r].body.ndvi_matrix = FallbackGrid

\* C3: every response carries conflicts with exactly three entries, each with
\* x and y within [0,1] and the fixed intensity.
C3_ThreeConflicts ==
    \A r \in Requests :
        Done(r) => /\ "conflicts" \in DOMAIN response[r].body
                   /\ Len(response[r].body.conflicts) = 3
                   /\ \A i \in 1..3 :
                        LET c == response[r].body.conflicts[i]
                        IN  /\ c.x >= 0 /\ c.x <= Scale
                            /\ c.y >= 0 /\ c.y <= Scale
                            /\ c.intensity = Intensity

\* C4: the matrices get_satellite_matrix hands out, fetched or substituted,
\* all have the shape of the fallback grid.
C4_SameShape ==
    \A r \in Requests :
        Fetched(r) => Shape(fetched[r].value) = Shape(FallbackGrid)

ExpectedPoints ==
    << [x |-> 3695, y |-> 8637], [x |-> 4140, y |-> 7919], [x |-> 3260, y |-> 9233] >>

\* C5: every call of get_real_location_proxy returns the same list: the three
\* hardcoded points in order, as (0.3695, 0.8637), (0.414, 0.7919),
\* (0.326, 0.9233); and the list being built is a prefix of it.
C5_ProxyDeterministic ==
    /\ \A k \in 1..Len(returned) :
          /\ Len(returned[k]) = 3
          /\ \A i \in 1..3 : /\ returned[k][i].x = ExpectedPoints[i].x
                             /\ returned[k][i].y = ExpectedPoints[i].y
    /\ \A i \in 1..Len(transformed_points) :
          /\ transformed_points[i].x = ExpectedPoints[i].x
          /\ transformed_points[i].y = ExpectedPoints[i].y

C5_Witness == Len(returned) >= 2 /\ Len(transformed_points) = 3

\* C6: the session is initialized exactly once, before any request is taken;
\* a failed initialization does not end the process, and no request makes
\* another attempt.
C6_InitOnce ==
    /\ phase # "crashed"
    /\ (phase = "boot") = (initCount = 0)
    /\ phase # "boot" => (initCount = 1 /\ session \in {"ok", "failed"})
    /\ (\E r \in Requests : pc[r] # "idle") => phase = "serving"

C6_Witness ==
    /\ session = "failed"
    /\ phase = "serving"
    /\ \A r \in Requests : Done(r)

\* C7: after a failed start-up, every call of get_satellite_matrix has its
\* query raise, returns the fallback grid and raises nothing to the handler.
C7_FailedInitFallsBack ==
    session = "failed" =>
        \A r \in Requests :
            Fetched(r) => /\ outcome[r].kind = "raise"
                          /\ fetched[r].exc = "none"
                          /\ fetched[r].value = FallbackGrid

C7_Witness == session = "failed" /\ \E r \in Requests : Fetched(r)

\* C8: get_satellite_matrix never raises; after a failed query it returns 48
\* rows of 64 cells, each 0.5, and after a successful one the pixel array of
\* the remote service unchanged.
C8_FetchTotal ==
    \A r \in Requests :
        Fetched(r) =>
            /\ fetched[r].exc = "none"
            /\ outcome[r].kind = "raise" =>
                  /\ Len(fetched[r].value) = 48
                  /\ \A i \in 1..48 :
                        /\ Len(fetched[r].value[i]) = 64
                        /\ \A j \in 1..64 : fetched[r].value[i][j] = 5000
            /\ outcome[r].kind = "ok" => fetched[r].value = outcome[r].grid

C8_Witness ==
    \E r, q \in Requests :
        /\ Fetched(r) /\ outcome[r].kind = "raise"
        /\ Fetched(q) /\ outcome[q].kind = "ok" /\ outcome[q].grid # FallbackGrid

\* C9: a request issues no query before the handler runs and exactly one by
\* the time the coordinate list is asked for, and what the handler holds comes
\* from that query of its own.
C9_OneQueryPerRequest ==
    \A r \in Requests :
        /\ pc[r] \in {"idle", "fetch"} => (queries[r] = 0 /\ outcome[r] = NoOutcome)
        /\ Fetched(r) => /\ queries[r] = 1
                         /\ outcome[r] \in RemoteOutcomes(session)
                         /\ outcome[r].kind = "ok" => fetched[r].value = outcome[r].grid

C9_Witness ==
    \E r, q \in Requests :
        /\ r # q
        /\ Done(r) /\ outcome[r].kind = "raise"
        /\ Done(q) /\ outcome[q].kind = "ok"

ProcessState == <<session, initCount, PROJECT_ID, AOI_BOUNDS, names>>

\* C10: once serving, no step changes the process-wide state, and two requests
\* whose own queries had the same outcome hold the same matrix and get the
\* same response.
C10_RequestsIndependent ==
    /\ [][phase = "serving" => ProcessState' = ProcessState]_vars
    /\ [](\A r, q \in Requests :
            outcome[r] = outcome[q] =>
                /\ (Fetched(r) /\ Fetched(q)) => fetched[r] = fetched[q]
                /\ (Done(r) /\ Done(q)) => response[r] = response[q])

C10_Witness ==
    \E r, q \in Requests :
        /\ r # q /\ Done(r) /\ Done(q)
        /\ outcome[r] = outcome[q] /\ outcome[r].kind = "ok"

====
